---- MODULE Spec2Model ----
(***************************************************************************)
(* Userman: session-authenticated CRUD HTTP API over the `userlist` table  *)
(* (server/src/server.ts).                                                 *)
(*                                                                         *)
(* A request is received in one synchronous step of the event loop: the    *)
(* guards declared on the route run, then the handler runs up to its       *)
(* `await query(...)`.  The statement then waits in the queue of the       *)
(* single mysql connection, the connection executes it, and the handler    *)
(* resumes from the await in a later step and sends the response.          *)
(***************************************************************************)
EXTENDS Integers, Sequences, FiniteSets

(***************************************************************************)
(* Bounds of the model.                                                    *)
(***************************************************************************)
\* number of requests one behaviour sends to the server
MaxRequests == 3
\* largest id a client asks for in /user/:userId
MaxId == 3
\* largest value the server clock reads
MaxTime == 1

(***************************************************************************)
(* Values.                                                                 *)
(***************************************************************************)
\* the JavaScript value `undefined` (an absent body field, a missing
\* property, the missing `result` argument of a failed query callback)
Undefined == "<undefined>"
\* SQL NULL, which the mysql driver writes for an undefined parameter
Null == "<null>"
\* the time value of `new Date(undefined)`: an Invalid Date
InvalidDate == -1
\* the result of Number(x) for an x that is not numeric
NaN == -999
\* req.session.user of a session that holds no user
NoUser == [absent |-> TRUE]
\* the `err` argument of a query callback that reports success
NoError == "<none>"

\* enum Rights of ../model/rights: ordinals, higher is more privileged
RightsUser == 0
RightsAdmin == 1
RightsSuperAdmin == 2

\* clock ticks per second: toLocaleString() prints whole seconds only
TicksPerSecond == 2

Sessions == {"s1", "s2"}
Slots == {1, 2}
Ids == 1..MaxId
Times == 0..MaxTime

\* values a client sends in req.body
\* username and password of a POST /login: right ones, a wrong password
Credentials == {<<"admin", "pw">>, <<"guest", "pw">>, <<"admin", "wrong">>}
Passwords == {"pw", "wrong", Undefined}
\* username and password of a POST /user: a new name, a taken name, none
NewCredentials == {<<"dora", "pw">>, <<"admin", "pw">>, <<Undefined, Undefined>>}
FirstNames == {"Hans", "", Undefined}
LastNames == {"Mustermann", Undefined}

GuardedBySession == {"GET /login", "POST /user", "GET /user/:id", "PUT /user/:id",
                     "DELETE /user/:id", "GET /users"}
GuardedByRole == {"POST /user", "PUT /user/:id", "DELETE /user/:id"}

(***************************************************************************)
(* Library functions the handlers call.                                    *)
(***************************************************************************)
\* cryptoJS.SHA512(p).toString(): an absent message is hashed as the empty
\* message; distinct messages have distinct digests
SHA512(p) ==
    CASE p = "pw" -> "sha512(pw)"
      [] p = "wrong" -> "sha512(wrong)"
      [] OTHER -> "sha512()"

Digests == {SHA512(p) : p \in Passwords}

\* JavaScript truthiness of a string-valued body field
Truthy(v) == v \notin {Undefined, Null, ""}

\* Number(x) of a rights column value
Number(x) ==
    CASE x = "0" -> 0
      [] x = "1" -> 1
      [] x = "2" -> 2
      [] OTHER -> NaN

\* a > b of JavaScript numbers: every comparison with NaN is false
GreaterThan(a, b) == a # NaN /\ b # NaN /\ a > b

\* new Date(row.f): an Invalid Date when the row has no column f
NewDate(row, f) == IF f \in DOMAIN row THEN row[f] ELSE InvalidDate

\* new Date().toLocaleString() when the clock reads t: whole seconds only
ToLocaleString(t) == t - (t % TicksPerSecond)

\* 'text' + err
StringOf(v) == IF v = Undefined THEN "undefined" ELSE v

\* row.f of a result row: undefined when the table has no column f
Field(row, f) == IF f \in DOMAIN row THEN row[f] ELSE Undefined

\* the value the rights column holds for an inserted ordinal
RightsColumn(n) ==
    CASE n = 0 -> "0"
      [] n = 1 -> "1"
      [] OTHER -> "2"

\* new User(id, username, firstName, lastName, creationTime, rights)
User(id, username, firstName, lastName, creationTime, rights) ==
    [id |-> id, username |-> username, firstName |-> firstName,
     lastName |-> lastName, creationTime |-> creationTime, rights |-> rights]

(***************************************************************************)
(* State.                                                                  *)
(***************************************************************************)
VARIABLES
    store,      \* the rows of table userlist
    nextId,     \* the AUTO_INCREMENT counter of userlist.id
    session,    \* session id -> req.session.user (NoUser when absent)
    slot,       \* request in flight -> where its handler stands
    dbQueue,    \* statements waiting on the single mysql connection, FIFO
    sent,       \* the response the latest step sent (NoResponse: none)
    nreq        \* requests received so far

vars == <<store, nextId, session, slot, dbQueue, sent, nreq>>

NoData == [id |-> 0, username |-> Undefined, password |-> Undefined,
           firstName |-> Undefined, lastName |-> Undefined,
           creationTime |-> 0, rights |-> Undefined]

IdleSlot == [pc |-> "idle", route |-> "none", sid |-> "none", userId |-> 0,
             clock |-> 0, sql |-> "none", data |-> NoData, outcome |-> "none",
             rows |-> {}, affectedRows |-> 0, reason |-> NoError]

NoResponse == [route |-> "none", sid |-> "none", userId |-> 0,
               status |-> 0, message |-> "none", detail |-> "none",
               user |-> NoUser, userList |-> {}]

\* res.status(status).send({message, user, userList}) to the request of slot r
Response(r, route, sid, userId, status, message, detail, user, userList) ==
    [route |-> route, sid |-> sid, userId |-> userId,
     status |-> status, message |-> message, detail |-> detail,
     user |-> user, userList |-> userList]

AdminRow ==
    [id |-> 1, username |-> "admin", password |-> SHA512("pw"),
     firstName |-> "Peter", lastName |-> "Kneisel", creationTime |-> 0,
     rights |-> RightsColumn(RightsAdmin)]

GuestRow ==
    [id |-> 2, username |-> "guest", password |-> SHA512("pw"),
     firstName |-> "Bruce", lastName |-> "Wayne", creationTime |-> 0,
     rights |-> RightsColumn(RightsUser)]

Init ==
    /\ store = {AdminRow, GuestRow}
    /\ nextId = 3
    /\ session = [s \in Sessions |-> NoUser]
    /\ slot = [r \in Slots |-> IdleSlot]
    /\ dbQueue = <<>>
    /\ sent = NoResponse
    /\ nreq = 0

(***************************************************************************)
(* Middleware: the guards of a route, in the order the route declares them.*)
(***************************************************************************)
\* a guard that lets every request through
isLoggedInAlways(user) == "next"

\* isLoggedIn(): `if (req.session.user) next() else 401`
isLoggedIn(user) == IF user # NoUser THEN "next" ELSE "401"

\* a role guard that lets every user through
isPrivilegedAlways(rights, user) == IF user = NoUser THEN "throw" ELSE "next"

\* a guard that compares with >= where the route needs >
isPrivilegedAbove(rights, user) ==
    IF user = NoUser THEN "throw"
    ELSE IF rights >= Number(user.rights) THEN "403"
    ELSE "next"

\* isPrivilegedAtLeast(rights): reading .rights of an absent user throws
isPrivilegedAtLeast(rights, user) ==
    IF user = NoUser THEN "throw"
    ELSE IF GreaterThan(rights, Number(user.rights)) THEN "403"
    ELSE "next"

\* routes that declare the role guard ahead of the session guard
GuardsRoleFirst(route) ==
    CASE route = "GET /login" -> <<"isLoggedIn">>
      [] route = "POST /user" -> <<"isPrivilegedAtLeast", "isLoggedIn">>
      [] route = "GET /user/:id" -> <<"isLoggedIn">>
      [] route = "PUT /user/:id" -> <<"isPrivilegedAtLeast", "isLoggedIn">>
      [] route = "DELETE /user/:id" -> <<"isPrivilegedAtLeast", "isLoggedIn">>
      [] route = "GET /users" -> <<"isLoggedIn">>
      [] OTHER -> <<>>

\* app.<verb>(path, guards..., handler)
Guards(route) ==
    CASE route = "GET /login" -> <<"isLoggedIn">>
      [] route = "POST /user" -> <<"isLoggedIn", "isPrivilegedAtLeast">>
      [] route = "GET /user/:id" -> <<"isLoggedIn">>
      [] route = "PUT /user/:id" -> <<"isLoggedIn", "isPrivilegedAtLeast">>
      [] route = "DELETE /user/:id" -> <<"isLoggedIn", "isPrivilegedAtLeast">>
      [] route = "GET /users" -> <<"isLoggedIn">>
      [] OTHER -> <<>>

RunGuard(guard, user) ==
    IF guard = "isLoggedIn" THEN isLoggedIn(user)
    ELSE isPrivilegedAtLeast(RightsAdmin, user)

\* express runs the chain left to right; a guard that does not call next()
\* ends the request
RECURSIVE RunGuards(_, _)
RunGuards(chain, user) ==
    IF chain = <<>> THEN "next"
    ELSE LET outcome == RunGuard(Head(chain), user)
         IN  IF outcome = "next" THEN RunGuards(Tail(chain), user) ELSE outcome

\* the response of a guard that ended the request; an exception thrown in a
\* guard reaches the default error handler of express
GuardResponse(r, route, sid, userId, outcome) ==
    CASE outcome = "401" ->
           Response(r, route, sid, userId, 401,
                    "Session expired, please log in again", "none", NoUser, {})
      [] outcome = "403" ->
           Response(r, route, sid, userId, 403,
                    "You are not allowed to execute this action", "none", NoUser, {})
      [] OTHER ->
           Response(r, route, sid, userId, 500, "TypeError", "none", NoUser, {})

(***************************************************************************)
(* Steps shared by the handlers.                                           *)
(***************************************************************************)
\* a new request takes the first free slot
CanReceive(r) ==
    /\ slot[r].pc = "idle"
    /\ \A q \in Slots : slot[q].pc = "idle" => r <= q
    /\ nreq < MaxRequests

\* a send that leaves the handler where it was, free to respond once more
SendAgain(r, response) ==
    /\ sent' = response
    /\ slot' = slot

\* res.status(..).send(..) ends the request of slot r
Send(r, response) ==
    /\ sent' = response
    /\ slot' = [slot EXCEPT ![r] = IdleSlot]

\* `await query(sql, data)`: the statement joins the connection's queue and
\* the handler is suspended
Await(r, route, sid, userId, clock, sql, data) ==
    /\ slot' = [slot EXCEPT ![r] = [IdleSlot EXCEPT !.pc = "queued", !.route = route,
                                     !.sid = sid, !.userId = userId,
                                     !.clock = clock, !.sql = sql,
                                     !.data = data, !.outcome = "pending"]]
    /\ dbQueue' = Append(dbQueue, r)
    /\ sent' = NoResponse

Resumable(r, route) ==
    /\ slot[r].pc = "settled"
    /\ slot[r].route = route

(***************************************************************************)
(* GET /login                                                              *)
(***************************************************************************)
GetLogin(r, sid) ==
    /\ CanReceive(r)
    /\ nreq' = nreq + 1
    /\ LET route == "GET /login"
           outcome == RunGuards(Guards(route), session[sid])
       IN  IF outcome # "next"
           THEN Send(r, GuardResponse(r, route, sid, 0, outcome))
           ELSE Send(r, Response(r, route, sid, 0, 200, "User still logged in",
                                 "none", session[sid], {}))
    /\ UNCHANGED <<store, nextId, session, dbQueue>>

(***************************************************************************)
(* POST /login                                                             *)
(***************************************************************************)
\* data of the SELECT: [username, SHA512(password)]
LoginData(username, password) ==
    [NoData EXCEPT !.username = username, !.password = SHA512(password)]

\* a login that keeps the whole row as the user
LoginUserWholeRow(row) == row

\* the User built from the matching row; the row has no column `time`
LoginUser(row) ==
    User(Field(row, "id"), Field(row, "username"), Field(row, "firstName"),
         Field(row, "lastName"), NewDate(row, "time"), Field(row, "rights"))

\* a login that clears the session when the credentials do not match
LoginSessionClearing(user, rows) ==
    IF Cardinality(rows) = 1
    THEN LoginUser(CHOOSE row \in rows : TRUE)
    ELSE NoUser

\* a login that keeps the user a session already holds
LoginSessionKeeping(user, rows) ==
    IF Cardinality(rows) = 1 /\ user = NoUser
    THEN LoginUser(CHOOSE row \in rows : TRUE)
    ELSE user

\* req.session.user after the handler has seen the rows of the SELECT
LoginSession(user, rows) ==
    IF Cardinality(rows) = 1
    THEN LoginUser(CHOOSE row \in rows : TRUE)
    ELSE user

LoginResponse(r, sid, rows) ==
    IF Cardinality(rows) = 1
    THEN Response(r, "POST /login", sid, 0, 200, "Successfully logged in", "none",
                  LoginUser(CHOOSE row \in rows : TRUE), {})
    ELSE Response(r, "POST /login", sid, 0, 401,
                  "Username or password is incorrect.", "none", NoUser, {})

\* a catch block that blames the client for a failed query
DatabaseRequestRefused(r, route, sid, userId, err) ==
    Response(r, route, sid, userId, 400, "Database request failed: ",
             StringOf(err), NoUser, {})

\* the catch block of the handlers that answer a failed query with 500
DatabaseRequestFailed(r, route, sid, userId, err) ==
    Response(r, route, sid, userId, 500, "Database request failed: ",
             StringOf(err), NoUser, {})

PostLogin(r, sid, username, password) ==
    /\ CanReceive(r)
    /\ nreq' = nreq + 1
    /\ Await(r, "POST /login", sid, 0, 0, "SELECT login", LoginData(username, password))
    /\ UNCHANGED <<store, nextId, session>>

LoginResume(r) ==
    /\ Resumable(r, "POST /login")
    /\ LET sid == slot[r].sid
       IN  IF slot[r].outcome = "resolved"
           THEN /\ session' = [session EXCEPT
                                 ![sid] = LoginSession(session[sid], slot[r].rows)]
                /\ Send(r, LoginResponse(r, sid, slot[r].rows))
           ELSE /\ session' = session
                /\ Send(r, DatabaseRequestFailed(r, "POST /login", sid, 0,
                                                 slot[r].reason))
    /\ UNCHANGED <<store, nextId, dbQueue, nreq>>

(***************************************************************************)
(* POST /logout                                                            *)
(***************************************************************************)
\* a logout that leaves the session as it is
LogoutSessionKept(user) == user

\* `delete req.session.user`
LogoutSession(user) == NoUser

PostLogout(r, sid) ==
    /\ CanReceive(r)
    /\ nreq' = nreq + 1
    /\ session' = [session EXCEPT ![sid] = LogoutSession(session[sid])]
    /\ Send(r, Response(r, "POST /logout", sid, 0, 200, "Successfully logged out",
                        "none", NoUser, {}))
    /\ UNCHANGED <<store, nextId, dbQueue>>

(***************************************************************************)
(* POST /user                                                              *)
(***************************************************************************)
\* an INSERT that makes the new account an administrator
CreateDataElevated(t, username, password, firstName, lastName) ==
    [NoData EXCEPT !.creationTime = ToLocaleString(t), !.username = username,
                   !.password = SHA512(password), !.firstName = firstName,
                   !.lastName = lastName, !.rights = RightsColumn(RightsAdmin)]

\* data of the INSERT: [creationTime, username, password, firstName,
\* lastName, Rights.User]
CreateData(t, username, password, firstName, lastName) ==
    [NoData EXCEPT !.creationTime = ToLocaleString(t), !.username = username,
                   !.password = SHA512(password), !.firstName = firstName,
                   !.lastName = lastName, !.rights = RightsColumn(RightsUser)]

\* a check that is content with one of the two names
MandatoryFieldsEither(firstName, lastName) == Truthy(firstName) \/ Truthy(lastName)

\* `if (firstName && lastName)`
MandatoryFields(firstName, lastName) == Truthy(firstName) /\ Truthy(lastName)

NotAllMandatoryFields(r, route, sid, userId) ==
    Response(r, route, sid, userId, 400, "Not all mandatory fields are filled in",
             "none", NoUser, {})

\* t: what the server clock reads when the handler runs
CreateUser(r, sid, t, firstName, lastName, username, password) ==
    /\ CanReceive(r)
    /\ nreq' = nreq + 1
    /\ LET route == "POST /user"
           outcome == RunGuards(Guards(route), session[sid])
       IN  IF outcome # "next"
           THEN /\ Send(r, GuardResponse(r, route, sid, 0, outcome))
                /\ dbQueue' = dbQueue
           ELSE IF MandatoryFields(firstName, lastName)
           THEN Await(r, route, sid, 0, t, "INSERT",
                      CreateData(t, username, password, firstName, lastName))
           ELSE /\ Send(r, NotAllMandatoryFields(r, route, sid, 0))
                /\ dbQueue' = dbQueue
    /\ UNCHANGED <<store, nextId, session>>

CreateUserResume(r) ==
    /\ Resumable(r, "POST /user")
    /\ LET sid == slot[r].sid
       IN  IF slot[r].outcome = "resolved"
           THEN Send(r, Response(r, "POST /user", sid, 0, 201,
                                 "Successfully created new user", "none", NoUser, {}))
           ELSE Send(r, Response(r, "POST /user", sid, 0, 400,
                                 "An error occured while creating the new user",
                                 "none", NoUser, {}))
    /\ UNCHANGED <<store, nextId, session, dbQueue, nreq>>

(***************************************************************************)
(* GET /user/:userId                                                       *)
(***************************************************************************)
\* the User built from a row of userlist
RowUser(row) ==
    User(Field(row, "id"), Field(row, "username"), Field(row, "firstName"),
         Field(row, "lastName"), NewDate(row, "creationTime"),
         Field(row, "rights"))

GetUserResponse(r, sid, userId, rows) ==
    IF Cardinality(rows) = 1
    THEN Response(r, "GET /user/:id", sid, userId, 200, "Successfully got user",
                  "none", RowUser(CHOOSE row \in rows : TRUE), {})
    ELSE Response(r, "GET /user/:id", sid, userId, 404,
                  "The requested user can not be found.", "none", NoUser, {})

GetUserfromId(r, sid, userId) ==
    /\ CanReceive(r)
    /\ nreq' = nreq + 1
    /\ LET route == "GET /user/:id"
           outcome == RunGuards(Guards(route), session[sid])
       IN  IF outcome # "next"
           THEN /\ Send(r, GuardResponse(r, route, sid, userId, outcome))
                /\ dbQueue' = dbQueue
           ELSE Await(r, route, sid, userId, 0, "SELECT id", [NoData EXCEPT !.id = userId])
    /\ UNCHANGED <<store, nextId, session>>

GetUserfromIdResume(r) ==
    /\ Resumable(r, "GET /user/:id")
    /\ LET sid == slot[r].sid
           userId == slot[r].userId
       IN  IF slot[r].outcome = "resolved"
           THEN Send(r, GetUserResponse(r, sid, userId, slot[r].rows))
           ELSE Send(r, DatabaseRequestFailed(r, "GET /user/:id", sid, userId,
                                              slot[r].reason))
    /\ UNCHANGED <<store, nextId, session, dbQueue, nreq>>

(***************************************************************************)
(* PUT /user/:userId                                                       *)
(***************************************************************************)
\* data of the UPDATE: [firstName, lastName, userId]
UpdateData(firstName, lastName, userId) ==
    [NoData EXCEPT !.firstName = firstName, !.lastName = lastName, !.id = userId]

\* a check that takes an update of no row for a success
UpdateStatusLax(affectedRows) == IF affectedRows > 1 THEN 400 ELSE 200

\* `if (result.affectedRows != 1) 400 else 200`
UpdateStatus(affectedRows) == IF affectedRows # 1 THEN 400 ELSE 200

\* the 200 message ends with the two names of the request body
UpdateResponse(r, sid, userId, status) ==
    IF status = 200
    THEN Response(r, "PUT /user/:id", sid, userId, 200, "Successfully updated user",
                  "none", NoUser, {})
    ELSE Response(r, "PUT /user/:id", sid, userId, status,
                  "The user to update could not be found", "none", NoUser, {})

Update(r, sid, userId, firstName, lastName) ==
    /\ CanReceive(r)
    /\ nreq' = nreq + 1
    /\ LET route == "PUT /user/:id"
           outcome == RunGuards(Guards(route), session[sid])
       IN  IF outcome # "next"
           THEN /\ Send(r, GuardResponse(r, route, sid, userId, outcome))
                /\ dbQueue' = dbQueue
           ELSE IF MandatoryFields(firstName, lastName)
           THEN Await(r, route, sid, userId, 0, "UPDATE",
                      UpdateData(firstName, lastName, userId))
           ELSE /\ Send(r, NotAllMandatoryFields(r, route, sid, userId))
                /\ dbQueue' = dbQueue
    /\ UNCHANGED <<store, nextId, session>>

UpdateResume(r) ==
    /\ Resumable(r, "PUT /user/:id")
    /\ LET sid == slot[r].sid
           userId == slot[r].userId
       IN  IF slot[r].outcome = "resolved"
           THEN Send(r, UpdateResponse(r, sid, userId,
                                       UpdateStatus(slot[r].affectedRows)))
           ELSE Send(r, UpdateResponse(r, sid, userId, 400))
    /\ UNCHANGED <<store, nextId, session, dbQueue, nreq>>

(***************************************************************************)
(* DELETE /user/:userId                                                    *)
(***************************************************************************)
\* a check that takes a delete of no row for a success
DeleteStatusLax(affectedRows) == IF affectedRows <= 1 THEN 200 ELSE 400

\* `if (result.affectedRows === 1) 200 else 400`
DeleteStatus(affectedRows) == IF affectedRows = 1 THEN 200 ELSE 400

DeleteResponse(r, sid, userId, status) ==
    IF status = 200
    THEN Response(r, "DELETE /user/:id", sid, userId, 200,
                  "Successfully deleted user ", "none", NoUser, {})
    ELSE Response(r, "DELETE /user/:id", sid, userId, status,
                  "The user to be deleted could not be found", "none", NoUser, {})

DeleteUser(r, sid, userId) ==
    /\ CanReceive(r)
    /\ nreq' = nreq + 1
    /\ LET route == "DELETE /user/:id"
           outcome == RunGuards(Guards(route), session[sid])
       IN  IF outcome # "next"
           THEN /\ Send(r, GuardResponse(r, route, sid, userId, outcome))
                /\ dbQueue' = dbQueue
           ELSE Await(r, route, sid, userId, 0, "DELETE", [NoData EXCEPT !.id = userId])
    /\ UNCHANGED <<store, nextId, session>>

DeleteUserResume(r) ==
    /\ Resumable(r, "DELETE /user/:id")
    /\ LET sid == slot[r].sid
           userId == slot[r].userId
       IN  IF slot[r].outcome = "resolved"
           THEN Send(r, DeleteResponse(r, sid, userId,
                                       DeleteStatus(slot[r].affectedRows)))
           ELSE Send(r, DatabaseRequestFailed(r, "DELETE /user/:id", sid, userId,
                                              slot[r].reason))
    /\ UNCHANGED <<store, nextId, session, dbQueue, nreq>>

(***************************************************************************)
(* GET /users                                                              *)
(***************************************************************************)
\* the loop that builds userList from the rows
UserList(rows) == {RowUser(row) : row \in rows}

GetUserlist(r, sid) ==
    /\ CanReceive(r)
    /\ nreq' = nreq + 1
    /\ LET route == "GET /users"
           outcome == RunGuards(Guards(route), session[sid])
       IN  IF outcome # "next"
           THEN /\ Send(r, GuardResponse(r, route, sid, 0, outcome))
                /\ dbQueue' = dbQueue
           ELSE Await(r, route, sid, 0, 0, "SELECT all", NoData)
    /\ UNCHANGED <<store, nextId, session>>

GetUserlistResume(r) ==
    /\ Resumable(r, "GET /users")
    /\ LET sid == slot[r].sid
       IN  IF slot[r].outcome = "resolved"
           THEN Send(r, Response(r, "GET /users", sid, 0, 200,
                                 "Successfully requested user list", "none", NoUser,
                                 UserList(slot[r].rows)))
           ELSE Send(r, DatabaseRequestFailed(r, "GET /users", sid, 0, slot[r].reason))
    /\ UNCHANGED <<store, nextId, session, dbQueue, nreq>>

(***************************************************************************)
(* The store: table userlist behind the single mysql connection.           *)
(***************************************************************************)
\* the driver writes NULL for an undefined parameter
SqlParam(v) == IF v = Undefined THEN Null ELSE v

\* `column = ?`: a comparison with NULL matches no row
SqlEq(column, param) == column # Null /\ SqlParam(param) # Null /\ column = SqlParam(param)

\* what the callback of database.query gets as `result` when `err` is set
NoResult == [rows |-> {}, affectedRows |-> 0, text |-> Undefined]

Result(rows, affectedRows) ==
    [rows |-> rows, affectedRows |-> affectedRows, text |-> "[object Object]"]

\* 'SELECT * FROM userlist WHERE username = ? AND password = ?;'
SelectLogin(rows, data) ==
    {row \in rows : SqlEq(row.username, data.username)
                    /\ SqlEq(row.password, data.password)}

\* 'SELECT * FROM userlist WHERE id = ?;'
SelectId(rows, data) == {row \in rows : row.id = data.id}

\* the row of 'INSERT INTO userlist (creationTime, username, password,
\* firstName, lastName, rights) VALUES (?, ?, ?, ?, ?, ?);' with the next id
InsertRow(id, data) ==
    [id |-> id, username |-> SqlParam(data.username),
     password |-> SqlParam(data.password), firstName |-> SqlParam(data.firstName),
     lastName |-> SqlParam(data.lastName), creationTime |-> data.creationTime,
     rights |-> data.rights]

\* a table without the unique key: no username is ever taken
UsernameFree(rows, username) == FALSE

\* the unique key on userlist.username rejects a second row with a username
UsernameTaken(rows, username) == \E row \in rows : SqlEq(row.username, username)

\* an UPDATE without its WHERE clause
UpdateRowsEverywhere(rows, data) ==
    {[row EXCEPT !.firstName = SqlParam(data.firstName),
                 !.lastName = SqlParam(data.lastName)] : row \in rows}

\* 'UPDATE userlist SET firstName = ?, lastName = ? WHERE id = ?;'
UpdateRows(rows, data) ==
    {IF row.id = data.id
     THEN [row EXCEPT !.firstName = SqlParam(data.firstName),
                      !.lastName = SqlParam(data.lastName)]
     ELSE row : row \in rows}

\* 'DELETE FROM userlist WHERE id = ?;'
DeleteRows(rows, data) == {row \in rows : row.id # data.id}

\* the statement `sql` with parameters `data` run on the table
Execute(sql, data, rows, id) ==
    CASE sql = "SELECT login" ->
           [err |-> NoError, store |-> rows, nextId |-> id,
            result |-> Result(SelectLogin(rows, data), 0)]
      [] sql = "SELECT id" ->
           [err |-> NoError, store |-> rows, nextId |-> id,
            result |-> Result(SelectId(rows, data), 0)]
      [] sql = "SELECT all" ->
           [err |-> NoError, store |-> rows, nextId |-> id,
            result |-> Result(rows, 0)]
      [] sql = "INSERT" ->
           IF UsernameTaken(rows, data.username)
           THEN [err |-> "ER_DUP_ENTRY", store |-> rows, nextId |-> id,
                 result |-> NoResult]
           ELSE [err |-> NoError, store |-> rows \cup {InsertRow(id, data)},
                 nextId |-> id + 1, result |-> Result({}, 1)]
      [] sql = "UPDATE" ->
           [err |-> NoError, store |-> UpdateRows(rows, data), nextId |-> id,
            result |-> Result({}, Cardinality(SelectId(rows, data)))]
      [] OTHER ->
           [err |-> NoError, store |-> DeleteRows(rows, data), nextId |-> id,
            result |-> Result({}, Cardinality(SelectId(rows, data)))]

\* query(sql, data): the promise settles from the callback of database.query,
\* `if (err) reject(result) else resolve(result)`
Query(err, result) ==
    IF err # NoError
    THEN [outcome |-> "rejected", rows |-> {}, affectedRows |-> 0,
          reason |-> result.text]
    ELSE [outcome |-> "resolved", rows |-> result.rows,
          affectedRows |-> result.affectedRows, reason |-> NoError]

Settle(r, promise) ==
    [slot[r] EXCEPT !.pc = "settled", !.outcome = promise.outcome,
                    !.rows = promise.rows, !.affectedRows = promise.affectedRows,
                    !.reason = promise.reason]

\* a connection whose statements refresh the user of every session from the
\* table, and drop the user whose row is gone
DbExecuteSyncing ==
    /\ dbQueue # <<>>
    /\ LET r == Head(dbQueue)
           done == Execute(slot[r].sql, slot[r].data, store, nextId)
       IN  /\ store' = done.store
           /\ nextId' = done.nextId
           /\ slot' = [slot EXCEPT ![r] = Settle(r, Query(done.err, done.result))]
           /\ session' = [sid \in Sessions |->
                             IF session[sid] = NoUser
                             THEN NoUser
                             ELSE LoginSession(NoUser,
                                               SelectId(done.store, session[sid]))]
    /\ dbQueue' = Tail(dbQueue)
    /\ sent' = NoResponse
    /\ nreq' = nreq

\* the connection runs the statement at the head of its queue
DbExecute ==
    /\ dbQueue # <<>>
    /\ LET r == Head(dbQueue)
           done == Execute(slot[r].sql, slot[r].data, store, nextId)
       IN  /\ store' = done.store
           /\ nextId' = done.nextId
           /\ slot' = [slot EXCEPT ![r] = Settle(r, Query(done.err, done.result))]
    /\ dbQueue' = Tail(dbQueue)
    /\ sent' = NoResponse
    /\ UNCHANGED <<session, nreq>>

\* the connection fails on the statement at the head of its queue
DbFail ==
    /\ dbQueue # <<>>
    /\ LET r == Head(dbQueue)
       IN  slot' = [slot EXCEPT ![r] = Settle(r, Query("ECONNRESET", NoResult))]
    /\ dbQueue' = Tail(dbQueue)
    /\ sent' = NoResponse
    /\ UNCHANGED <<store, nextId, session, nreq>>

(***************************************************************************)
(* The server.                                                             *)
(***************************************************************************)
Next ==
    \/ \E r \in Slots, sid \in Sessions : GetLogin(r, sid)
    \/ \E r \in Slots, sid \in Sessions, credentials \in Credentials :
           PostLogin(r, sid, credentials[1], credentials[2])
    \/ \E r \in Slots : LoginResume(r)
    \/ \E r \in Slots, sid \in Sessions : PostLogout(r, sid)
    \/ \E r \in Slots, sid \in Sessions, t \in Times, firstName \in FirstNames,
          lastName \in LastNames, credentials \in NewCredentials :
           CreateUser(r, sid, t, firstName, lastName, credentials[1], credentials[2])
    \/ \E r \in Slots : CreateUserResume(r)
    \/ \E r \in Slots, sid \in Sessions, userId \in Ids : GetUserfromId(r, sid, userId)
    \/ \E r \in Slots : GetUserfromIdResume(r)
    \/ \E r \in Slots, sid \in Sessions, userId \in Ids, firstName \in FirstNames,
          lastName \in LastNames : Update(r, sid, userId, firstName, lastName)
    \/ \E r \in Slots : UpdateResume(r)
    \/ \E r \in Slots, sid \in Sessions, userId \in Ids : DeleteUser(r, sid, userId)
    \/ \E r \in Slots : DeleteUserResume(r)
    \/ \E r \in Slots, sid \in Sessions : GetUserlist(r, sid)
    \/ \E r \in Slots : GetUserlistResume(r)
    \/ DbExecute
    \/ DbFail

Spec == Init /\ [][Next]_vars

\* the handler of slot r resumes from its await
Resume(r) ==
    \/ LoginResume(r)
    \/ CreateUserResume(r)
    \/ GetUserfromIdResume(r)
    \/ UpdateResume(r)
    \/ DeleteUserResume(r)
    \/ GetUserlistResume(r)

\* the server with a connection that calls back for every statement it was
\* given, and an event loop that runs every continuation that is ready
FairSpec ==
    /\ Spec
    /\ WF_vars(DbExecute \/ DbFail)
    /\ \A r \in Slots : WF_vars(Resume(r))

\* the server once the administrator has logged in on session s1, with no
\* request in flight: what a POST /login of admin, answered 200, leaves
InitAdmin ==
    /\ store = {AdminRow, GuestRow}
    /\ nextId = 3
    /\ session = [s \in Sessions |-> IF s = "s1"
                                     THEN LoginSession(NoUser, {AdminRow})
                                     ELSE NoUser]
    /\ slot = [r \in Slots |-> IdleSlot]
    /\ dbQueue = <<>>
    /\ sent = NoResponse
    /\ nreq = 0

\* the requests that follow the administrator's login
SpecAdmin == InitAdmin /\ [][Next]_vars

(***************************************************************************)
(* Steps, read off two successive states.                                  *)
(***************************************************************************)
\* the step receives a request
Receives == nreq' = nreq + 1

\* the step receives a request and answers it at once
Answers == Receives /\ sent' # NoResponse

\* the step receives the request of slot r, whose handler issues a query
Issues(r) == Receives /\ slot[r].pc = "idle" /\ slot'[r].pc = "queued"

\* the connection runs the statement of slot r, and it succeeds
Runs(r, sql) ==
    /\ slot[r].pc = "queued"
    /\ slot[r].sql = sql
    /\ slot'[r].pc = "settled"
    /\ slot'[r].outcome = "resolved"

\* the handler of slot r resumes from its await and responds
Resumes(r, route) ==
    /\ slot[r].pc = "settled"
    /\ slot[r].route = route
    /\ slot'[r].pc = "idle"

RowIds(rows) == {row.id : row \in rows}

HasUser(sid) == session[sid] # NoUser

(***************************************************************************)
(* C1: a request to a session-guarded route whose session holds no user is *)
(* answered 401 and its handler never runs: no query is issued, and store  *)
(* and session stay as they are.                                           *)
(***************************************************************************)
C1_SessionGuard ==
    [][/\ \A r \in Slots :
              Issues(r) /\ slot'[r].route \in GuardedBySession
                  => HasUser(slot'[r].sid)
       /\ (Answers /\ sent'.route \in GuardedBySession /\ ~HasUser(sent'.sid))
              => /\ sent'.status = 401
                 /\ sent'.message = "Session expired, please log in again"
                 /\ sent'.user = NoUser
                 /\ sent'.userList = {}
                 /\ UNCHANGED <<store, nextId, session, slot, dbQueue>>]_vars

C1_Witness ==
    /\ sent.route \in GuardedBySession
    /\ sent.status = 401
    /\ ~HasUser(sent.sid)
    /\ dbQueue = <<>>

\* the role ordinal of the session's user
RoleOf(sid) == Number(session[sid].rights)

(***************************************************************************)
(* C2: on a role-guarded route with an authenticated session, a role below *)
(* Admin is answered 403 with the handler not run and the store unchanged; *)
(* a role equal to or above Admin passes through to the handler.           *)
(***************************************************************************)
C2_RoleGuard ==
    [][/\ \A r \in Slots :
              Issues(r) /\ slot'[r].route \in GuardedByRole
                  => HasUser(slot'[r].sid) /\ RoleOf(slot'[r].sid) >= RightsAdmin
       /\ (Answers /\ sent'.route \in GuardedByRole /\ HasUser(sent'.sid))
              => IF RoleOf(sent'.sid) < RightsAdmin
                 THEN /\ sent'.status = 403
                      /\ UNCHANGED <<store, nextId, session, slot, dbQueue>>
                 ELSE /\ sent'.status = 400
                      /\ sent'.message = "Not all mandatory fields are filled in"
       /\ \A rights \in {RightsUser, RightsAdmin, RightsSuperAdmin} :
              isPrivilegedAtLeast(RightsAdmin, [rights |-> RightsColumn(rights)])
                  = IF rights < RightsAdmin THEN "403" ELSE "next"]_vars

C2_Witness ==
    /\ sent.route \in GuardedByRole
    /\ sent.status = 403
    /\ HasUser(sent.sid)
    /\ RoleOf(sent.sid) < RightsAdmin
    /\ \E sid \in Sessions : HasUser(sid) /\ RoleOf(sid) >= RightsAdmin

(***************************************************************************)
(* C3: a POST /login whose SELECT matches zero rows or more than one is    *)
(* answered 401 "Username or password is incorrect." and leaves the        *)
(* session's user exactly as it was.                                       *)
(***************************************************************************)
C3_LoginIncorrect ==
    [][\A r \in Slots :
           (/\ Resumes(r, "POST /login")
            /\ slot[r].outcome = "resolved"
            /\ Cardinality(slot[r].rows) # 1)
               => /\ sent'.status = 401
                  /\ sent'.message = "Username or password is incorrect."
                  /\ sent'.user = NoUser
                  /\ session' = session]_vars

\* the 401 of a failed login reaches a session that still holds its user
C3_Witness ==
    /\ sent.route = "POST /login"
    /\ sent.status = 401
    /\ sent.message = "Username or password is incorrect."
    /\ HasUser(sent.sid)

\* the snapshot is one of the row: the same user, under the same names
SnapshotOf(user, row) ==
    /\ user # NoUser
    /\ user.id = row.id
    /\ user.username = row.username
    /\ user.firstName = row.firstName
    /\ user.lastName = row.lastName
    /\ user.rights = row.rights

(***************************************************************************)
(* C4: whatever the session held before, a POST /login that matches the    *)
(* row of user u leaves the session holding u's snapshot, and a repeated   *)
(* login on the unchanged row leaves the snapshot it already held.         *)
(***************************************************************************)
C4_LoginIdempotent ==
    [][\A r \in Slots :
           (/\ Resumes(r, "POST /login")
            /\ slot[r].outcome = "resolved"
            /\ Cardinality(slot[r].rows) = 1)
               => LET row == CHOOSE row \in slot[r].rows : TRUE
                      sid == slot[r].sid
                  IN  /\ SnapshotOf(session'[sid], row)
                      /\ sent'.status = 200
                      /\ sent'.user = session'[sid]
                      /\ SnapshotOf(session[sid], row) => session'[sid] = session[sid]
                      /\ \A other \in Sessions \ {sid} :
                             session'[other] = session[other]]_vars

\* a login has answered 200 and the session holds the user it answered with
C4_Witness ==
    /\ sent.route = "POST /login"
    /\ sent.status = 200
    /\ HasUser(sent.sid)
    /\ session[sent.sid] = sent.user
    /\ \E row \in store : SnapshotOf(sent.user, row)

(***************************************************************************)
(* C5: POST /logout has no guard; in every session state it answers 200    *)
(* and leaves the session without a user (so a second logout changes       *)
(* nothing), and it never touches the store.                               *)
(***************************************************************************)
C5_Logout ==
    [][/\ \A r \in Slots : Issues(r) => slot'[r].route # "POST /logout"
       /\ (Answers /\ sent'.route = "POST /logout")
              => /\ sent'.status = 200
                 /\ sent'.message = "Successfully logged out"
                 /\ session' = [session EXCEPT ![sent'.sid] = NoUser]
                 /\ ~HasUser(sent'.sid) => session' = session
                 /\ UNCHANGED <<store, nextId, slot, dbQueue>>]_vars

\* a logout has answered 200 while another session stays logged in
C5_Witness ==
    /\ sent.route = "POST /logout"
    /\ sent.status = 200
    /\ ~HasUser(sent.sid)
    /\ \E sid \in Sessions : HasUser(sid)

\* the ids of the rows with Admin rights or more
Admins(rows) == {row.id : row \in {row \in rows : Number(row.rights) >= RightsAdmin}}

(***************************************************************************)
(* C6: every row POST /user inserts has the lowest role, Rights.User, so   *)
(* the set of rows with Admin rights never grows.                          *)
(***************************************************************************)
C6_CreateRoleFixed ==
    [][/\ \A row \in store' :
              row.id \notin RowIds(store)
                  => /\ Number(row.rights) = RightsUser
                     /\ \A other \in {RightsAdmin, RightsSuperAdmin} :
                            RightsUser < other
                     /\ \E r \in Slots : Runs(r, "INSERT")
       /\ Admins(store') \subseteq Admins(store)]_vars

\* POST /user of an administrator has been answered 201 and its row is in
\* the table
C6_Witness ==
    /\ sent.route = "POST /user"
    /\ sent.status = 201
    /\ \E row \in store : row.id >= 3 /\ Number(row.rights) = RightsUser
    /\ Admins(store) # {}

\* a user object without a password field and without a digest in a field
NoDigest(user) ==
    /\ "password" \notin DOMAIN user
    /\ \A f \in DOMAIN user \cap {"username", "firstName", "lastName", "rights"} :
           user[f] \notin Digests

(***************************************************************************)
(* C7: no response body and no session snapshot holds a password digest.   *)
(***************************************************************************)
C7_NoDigest ==
    /\ NoDigest(sent.user)
    /\ \A user \in sent.userList : NoDigest(user)
    /\ sent.message \notin Digests
    /\ sent.detail \notin Digests
    /\ \A sid \in Sessions : NoDigest(session[sid])

\* a login has answered with the user object while the table holds digests
C7_Witness ==
    /\ sent.route = "POST /login"
    /\ sent.status = 200
    /\ sent.user # NoUser
    /\ session[sent.sid] = sent.user
    /\ \E row \in store : row.id = sent.user.id /\ row.password \in Digests

\* two rows that differ in firstName and lastName at most
SameButNames(old, new) ==
    /\ new.id = old.id
    /\ new.username = old.username
    /\ new.password = old.password
    /\ new.creationTime = old.creationTime
    /\ new.rights = old.rights

(***************************************************************************)
(* C8: the UPDATE of a PUT /user/:id changes firstName and lastName of the *)
(* row with that id and nothing else: no other field, no other row, no row *)
(* added or removed.                                                       *)
(***************************************************************************)
C8_UpdateFrame ==
    [][\A r \in Slots :
           Runs(r, "UPDATE")
               => LET data == slot[r].data
                  IN  /\ RowIds(store') = RowIds(store)
                      /\ Cardinality(store') = Cardinality(store)
                      /\ nextId' = nextId
                      /\ \A old \in store :
                             IF old.id = data.id
                             THEN \E new \in store' :
                                      /\ SameButNames(old, new)
                                      /\ new.firstName = data.firstName
                                      /\ new.lastName = data.lastName
                             ELSE old \in store']_vars

\* a PUT has been answered 200; its row has the new names, the other row
\* is as it was
C8_Witness ==
    /\ sent.route = "PUT /user/:id"
    /\ sent.status = 200
    /\ sent.userId = 2
    /\ \E row \in store :
           /\ SameButNames(GuestRow, row)
           /\ row.firstName = "Hans"
           /\ row.lastName = "Mustermann"
    /\ AdminRow \in store

(***************************************************************************)
(* C9: DELETE /user/:id of an administrator: with one row of that id the   *)
(* answer is 200 and exactly that row is gone; with no row of that id the  *)
(* answer is the 400 "could not be found" and the store is as it was.      *)
(***************************************************************************)
C9_Delete ==
    [][\A r \in Slots :
           /\ Runs(r, "DELETE")
                  => LET hit == {row \in store : row.id = slot[r].userId}
                     IN  /\ store' = store \ hit
                         /\ slot'[r].affectedRows = Cardinality(hit)
                         /\ hit = {} => store' = store
                         /\ nextId' = nextId
           /\ (Resumes(r, "DELETE /user/:id") /\ slot[r].outcome = "resolved")
                  => /\ slot[r].affectedRows = 1 => sent'.status = 200
                     /\ slot[r].affectedRows = 0
                            => /\ sent'.status = 400
                               /\ sent'.message
                                      = "The user to be deleted could not be found"
                     /\ store' = store]_vars

\* a DELETE of an id no row has was answered 400, the table is as it was
C9_Witness ==
    /\ sent.route = "DELETE /user/:id"
    /\ sent.status = 400
    /\ sent.userId \notin RowIds(store)
    /\ store = {AdminRow, GuestRow}
    /\ HasUser(sent.sid)
    /\ RoleOf(sent.sid) >= RightsAdmin

Named(rows, f, l) == {row \in rows : row.firstName = f /\ row.lastName = l}

(***************************************************************************)
(* C11: round trip of POST /user and GET /users.  An INSERT of the names f *)
(* and l into a table that holds no row of those names leaves exactly one  *)
(* row of those names, whose id no row had before and whose creationTime   *)
(* is not earlier than the time of the request; the SELECT of a following  *)
(* GET /users reads the table as it stands, and the 200 lists one entry    *)
(* per row it read, with the row's id, names and creationTime.             *)
(***************************************************************************)
C11_RoundTrip ==
    [][\A r \in Slots :
           /\ (/\ Runs(r, "INSERT")
               /\ Named(store, slot[r].data.firstName, slot[r].data.lastName) = {})
                  => LET created == Named(store', slot[r].data.firstName,
                                          slot[r].data.lastName)
                     IN  /\ Cardinality(created) = 1
                         /\ \A row \in created :
                                /\ row.id \notin RowIds(store)
                                /\ row.creationTime >= slot[r].clock
           /\ Runs(r, "SELECT all")
                  => /\ store' = store
                     /\ slot'[r].rows = store
           /\ (Resumes(r, "GET /users") /\ slot[r].outcome = "resolved")
                  => /\ sent'.status = 200
                     /\ \A row \in slot[r].rows :
                            \E user \in sent'.userList :
                                /\ user.id = row.id
                                /\ user.firstName = row.firstName
                                /\ user.lastName = row.lastName
                                /\ user.creationTime = row.creationTime
                                /\ \A other \in sent'.userList :
                                       other.id = row.id => other = user]_vars

\* no two rows of the table carry the same username (a row whose username
\* is NULL carries none)
UsernamesDistinct(rows) ==
    \A row \in rows, other \in rows :
        (row # other /\ row.username # Null) => row.username # other.username

\* slot r holds a POST /user whose INSERT carries the username u
Creates(r, u) ==
    /\ slot[r].route = "POST /user"
    /\ slot[r].sql = "INSERT"
    /\ SqlParam(slot[r].data.username) = u

\* the handling of an INSERT of a username some row already has: the INSERT
\* is rejected and leaves the table as it was, the handler answers the
\* rejection with 400 and sends 201 only for an INSERT that succeeded
DuplicateHandled ==
    \A r \in Slots :
        /\ (/\ slot[r].pc = "queued"
            /\ slot[r].sql = "INSERT"
            /\ slot'[r].pc = "settled"
            /\ UsernameTaken(store, slot[r].data.username))
               => /\ slot'[r].outcome = "rejected"
                  /\ store' = store
        /\ Resumes(r, "POST /user")
               => /\ store' = store
                  /\ sent'.status = 201 <=> slot[r].outcome = "resolved"
                  /\ slot[r].outcome = "rejected"
                         => /\ sent'.status = 400
                            /\ sent'.message
                                 = "An error occured while creating the new user"

\* two POST /user with the same username u are in flight, the INSERT of
\* each has succeeded
BothCreated(r, q, u) ==
    /\ r # q
    /\ Creates(r, u) /\ Creates(q, u)
    /\ slot[r].pc = "settled" /\ slot[q].pc = "settled"
    /\ slot[r].outcome = "resolved" /\ slot[q].outcome = "resolved"

FailureStatus(route) ==
    IF route \in {"POST /user", "PUT /user/:id"} THEN 400 ELSE 500

\* the query of slot r fails in this step
Fails(r) ==
    /\ slot[r].pc = "queued"
    /\ slot'[r].pc = "settled"
    /\ slot'[r].outcome = "rejected"

(***************************************************************************)
(* C13: a failure of the store is caught by the handler that awaits the    *)
(* query and answered with one error response: 500 by POST /login,         *)
(* GET /user/:id, DELETE /user/:id and GET /users, 400 by POST /user and   *)
(* PUT /user/:id.  The failure and its answer leave every session and the  *)
(* table as they were, the failed request stays resumable until it is      *)
(* answered, and the answer ends the request.                              *)
(***************************************************************************)
C13_StoreFailure ==
    [][\A r \in Slots :
           /\ Fails(r)
                  => /\ session' = session
                     /\ store' = store
                     /\ sent' = NoResponse
                     /\ slot'[r].route = slot[r].route
           /\ (slot[r].pc = "settled" /\ slot[r].outcome = "rejected")
                  => \/ slot'[r] = slot[r]
                     \/ /\ Resumes(r, slot[r].route)
                        /\ sent'.route = slot[r].route
                        /\ sent'.sid = slot[r].sid
                        /\ sent'.status = FailureStatus(slot[r].route)
                        /\ sent'.user = NoUser
                        /\ slot'[r] = IdleSlot
                        /\ session' = session
                        /\ store' = store]_vars

\* a GET /users whose query failed was answered 500, the session that sent it
\* still holds its user
C13_Witness ==
    /\ sent.route = "GET /users"
    /\ sent.status = 500
    /\ sent.message = "Database request failed: "
    /\ HasUser(sent.sid)
    /\ \A r \in Slots : slot[r].pc = "idle"

\* the errors the store reports to the callback of database.query
StoreErrors == {"ECONNRESET", "ER_DUP_ENTRY"}

(***************************************************************************)
(* C14: the 500 that answers a failed query carries the detail of the      *)
(* failure: a failing query leaves the handler the error of the store as   *)
(* the reason of the rejection, and the text that the 500 appends to       *)
(* "Database request failed: " is that error.                              *)
(***************************************************************************)
C14_FailureDetail ==
    [][\A r \in Slots :
           /\ Fails(r) => slot'[r].reason \in StoreErrors
           /\ (/\ Resumes(r, slot[r].route)
               /\ slot[r].outcome = "rejected"
               /\ FailureStatus(slot[r].route) = 500)
                  => /\ sent'.message = "Database request failed: "
                     /\ sent'.detail = StringOf(slot[r].reason)
                     /\ sent'.detail \in StoreErrors]_vars

(***************************************************************************)
(* C15: a login that one row matches stores in the session, and returns    *)
(* with its 200, a snapshot built from that row: id, username, firstName,  *)
(* lastName, creationTime and rights are the row's, so the snapshot is the *)
(* user that GET /user/:id returns for the same row.                       *)
(***************************************************************************)
C15_LoginSnapshot ==
    [][\A r \in Slots :
           (/\ Resumes(r, "POST /login")
            /\ slot[r].outcome = "resolved"
            /\ Cardinality(slot[r].rows) = 1)
               => LET row == CHOOSE row \in slot[r].rows : TRUE
                  IN  /\ sent'.status = 200
                      /\ sent'.user = session'[slot[r].sid]
                      /\ SnapshotOf(sent'.user, row)
                      /\ sent'.user.creationTime = row.creationTime
                      /\ sent'.user = GetUserResponse(r, slot[r].sid, row.id, {row}).user]_vars

(***************************************************************************)
(* C16: the user of a session is a copy taken at login and never synced    *)
(* with the table.  A session's user changes only when a POST /login of    *)
(* that session resumes or a POST /logout of that session is answered; an  *)
(* UPDATE or a DELETE, of whatever row and from whatever session, leaves   *)
(* every session as it was.  GET /login answers with the user the session  *)
(* holds, and the guards decide on that user alone: a session that holds a *)
(* user is never answered 401, and is answered 403 exactly on a            *)
(* role-guarded route when the rights of its copy are below Admin.         *)
(***************************************************************************)
C16_SnapshotKept ==
    [][/\ \A sid \in Sessions :
              session'[sid] # session[sid]
                  => \/ \E r \in Slots : Resumes(r, "POST /login") /\ slot[r].sid = sid
                     \/ Answers /\ sent'.route = "POST /logout" /\ sent'.sid = sid
       /\ \A r \in Slots :
              (/\ slot[r].pc = "queued"
               /\ slot[r].sql \in {"UPDATE", "DELETE"}
               /\ slot'[r].pc = "settled")
                  => session' = session
       /\ (Answers /\ sent'.route \in GuardedBySession /\ HasUser(sent'.sid))
              => /\ session' = session
                 /\ sent'.status # 401
                 /\ sent'.status = 403
                        <=> (sent'.route \in GuardedByRole
                             /\ RoleOf(sent'.sid) < RightsAdmin)
                 /\ sent'.route = "GET /login"
                        => /\ sent'.status = 200
                           /\ sent'.user = session[sent'.sid]
       /\ \A r \in Slots :
              (Issues(r) /\ slot'[r].route \in GuardedByRole)
                  => RoleOf(slot'[r].sid) >= RightsAdmin]_vars

\* GET /login has answered 200 with the user the session took at login,
\* whose row has since been deleted or renamed
C16_Witness ==
    /\ sent.route = "GET /login"
    /\ sent.status = 200
    /\ sent.user = session[sent.sid]
    /\ HasUser(sent.sid)
    /\ \A row \in store : ~SnapshotOf(sent.user, row)

\* the routes of the server
Routes == GuardedBySession \cup {"POST /login", "POST /logout"}

(***************************************************************************)
(* C17: on every route that declares isPrivilegedAtLeast, isLoggedIn is    *)
(* declared before it.  The chain runs in one piece, so in every reachable *)
(* state, whatever logins and logouts of the session came before or are in *)
(* flight, the role guard is evaluated only on a session that holds a      *)
(* user: no chain ends in the exception of reading the rights of an absent *)
(* user, and no request is answered by that exception.                     *)
(***************************************************************************)
C17_GuardOrder ==
    /\ \A route \in Routes :
           \A i \in DOMAIN Guards(route) :
               Guards(route)[i] = "isPrivilegedAtLeast"
                   => \E j \in 1..(i - 1) : Guards(route)[j] = "isLoggedIn"
    /\ \A route \in Routes :
           Guards(route) # <<>> <=> route \in GuardedBySession
    /\ \A route \in Routes :
           "isPrivilegedAtLeast" \in {Guards(route)[i] : i \in DOMAIN Guards(route)}
               <=> route \in GuardedByRole
    /\ \A route \in Routes, sid \in Sessions :
           RunGuards(Guards(route), session[sid]) # "throw"
    /\ sent.message # "TypeError"
    /\ sent.status = 500 => sent.message = "Database request failed: "

\* a request to a role-guarded route from a session without a user has been
\* stopped by the session guard with 401, while a query of another request
\* of that session is in flight
C17_Witness ==
    /\ sent.route \in GuardedByRole
    /\ sent.status = 401
    /\ sent.message = "Session expired, please log in again"
    /\ ~HasUser(sent.sid)
    /\ isPrivilegedAtLeast(RightsAdmin, session[sent.sid]) = "throw"
    /\ \E r \in Slots : slot[r].pc = "queued" /\ slot[r].sid = sent.sid

(***************************************************************************)
(* C18: no cancellation.  A request whose handler has issued its query     *)
(* stays in flight until the connection has settled the query and the      *)
(* handler has resumed and answered; every step sends at most one response *)
(* and that response ends exactly one request, so no request is answered   *)
(* twice.  A POST /logout leaves every request in flight, the queue of the *)
(* connection and the table as they were, and a DELETE that runs after the *)
(* logout of its session removes its row all the same.  When the           *)
(* connection answers every query, every request in flight is answered.    *)
(***************************************************************************)
C18_NoCancellation ==
    /\ [][/\ \A r \in Slots :
                 /\ slot[r].pc = "queued"
                        => \/ slot'[r] = slot[r]
                           \/ /\ slot'[r].pc = "settled"
                              /\ slot'[r].route = slot[r].route
                              /\ slot'[r].sid = slot[r].sid
                              /\ sent' = NoResponse
                 /\ slot[r].pc = "settled"
                        => \/ slot'[r] = slot[r]
                           \/ /\ slot'[r] = IdleSlot
                              /\ sent'.route = slot[r].route
                              /\ sent'.sid = slot[r].sid
                              /\ sent'.status # 0
                 /\ Runs(r, "DELETE")
                        => RowIds(store') = RowIds(store) \ {slot[r].userId}
          /\ sent' # NoResponse
                 => \/ Receives /\ slot' = slot
                    \/ /\ ~Receives
                       /\ Cardinality({r \in Slots : slot'[r] # slot[r]}) = 1
          /\ (Receives /\ sent' = NoResponse)
                 => /\ Cardinality({r \in Slots : Issues(r)}) = 1
                    /\ \A r \in Slots : Issues(r) \/ slot'[r] = slot[r]
          /\ (Answers /\ sent'.route = "POST /logout")
                 => UNCHANGED <<slot, dbQueue, store>>]_vars
    /\ \A r \in Slots : (slot[r].pc = "queued") ~> (slot[r].pc = "idle")

\* a DELETE has been answered 200 and its row is gone, although the session
\* that sent it logged out while the DELETE was in flight
C18_Witness ==
    /\ sent.route = "DELETE /user/:id"
    /\ sent.status = 200
    /\ sent.userId \notin RowIds(store)
    /\ ~HasUser(sent.sid)
    /\ nreq = 3

\* the routes whose handlers check the mandatory fields
NamesChecked == {"POST /user", "PUT /user/:id"}

(***************************************************************************)
(* C19: the mandatory-fields check of POST /user and PUT /user/:id.  The   *)
(* check passes exactly when firstName and lastName are both present and   *)
(* not empty; no query of these routes is ever issued with a name absent   *)
(* or empty, and a request of an Admin session that issues none is         *)
(* answered 400 "Not all mandatory fields are filled in" with the table,   *)
(* the queue of the connection and the requests in flight as they were.    *)
(* The check does not look at username or password: a POST /user without   *)
(* them, with both names, issues its INSERT.                               *)
(***************************************************************************)
C19_MandatoryFields ==
    [][/\ \A firstName \in FirstNames, lastName \in LastNames :
              MandatoryFields(firstName, lastName)
                  <=> (firstName \notin {Undefined, ""} /\ lastName \notin {Undefined, ""})
       /\ \A r \in Slots :
              (Issues(r) /\ slot'[r].route \in NamesChecked)
                  => /\ slot'[r].data.firstName \notin {Undefined, Null, ""}
                     /\ slot'[r].data.lastName \notin {Undefined, Null, ""}
                     /\ slot'[r].sql \in {"INSERT", "UPDATE"}
       /\ (/\ Answers
           /\ sent'.route \in NamesChecked
           /\ HasUser(sent'.sid)
           /\ RoleOf(sent'.sid) >= RightsAdmin)
              => /\ sent'.status = 400
                 /\ sent'.message = "Not all mandatory fields are filled in"
                 /\ UNCHANGED <<store, nextId, dbQueue, slot, session>>]_vars

\* an administrator's request without its names has been answered 400 and
\* has issued no query, while the INSERT of a POST /user that came with both
\* names and without username and password is in flight
C19_Witness ==
    /\ sent.route \in NamesChecked
    /\ sent.status = 400
    /\ sent.message = "Not all mandatory fields are filled in"
    /\ HasUser(sent.sid) /\ RoleOf(sent.sid) >= RightsAdmin
    /\ Len(dbQueue) = 1
    /\ \E r \in Slots :
           /\ slot[r].pc = "queued"
           /\ slot[r].sql = "INSERT"
           /\ slot[r].data.username = Undefined
           /\ slot[r].data.password = SHA512(Undefined)
           /\ slot[r].data.firstName = "Hans"

\* the statements that change the table
Writes == {"INSERT", "UPDATE", "DELETE"}

(***************************************************************************)
(* C20: the table is changed only by requests an administrator was allowed *)
(* to make.  A step that changes a row, adds one or removes one is the     *)
(* connection running the INSERT, UPDATE or DELETE at the head of its      *)
(* queue, for a request to POST /user, PUT /user/:id or DELETE /user/:id;  *)
(* such a statement is issued only by a request whose session, in the step *)
(* that ran its guards, held a user with rights of Admin or more, and a    *)
(* request in flight keeps its route and its statement.  GET /login,       *)
(* POST /login, POST /logout, GET /user/:id and GET /users issue at most a *)
(* SELECT and no step of theirs changes the table.                         *)
(***************************************************************************)
C20_AdminWritesOnly ==
    [][/\ (store' # store \/ nextId' # nextId)
              => /\ dbQueue # <<>>
                 /\ LET r == Head(dbQueue)
                    IN  /\ Runs(r, slot[r].sql)
                        /\ slot[r].sql \in Writes
                        /\ slot[r].route \in GuardedByRole
       /\ \A r \in Slots :
              /\ Issues(r)
                     => /\ slot'[r].sql \in Writes <=> slot'[r].route \in GuardedByRole
                        /\ slot'[r].route \in GuardedByRole
                               => /\ HasUser(slot'[r].sid)
                                  /\ RoleOf(slot'[r].sid) >= RightsAdmin
                                  /\ session' = session
              /\ slot[r].pc # "idle"
                     => \/ slot'[r] = IdleSlot
                        \/ /\ slot'[r].route = slot[r].route
                           /\ slot'[r].sql = slot[r].sql
                           /\ slot'[r].data = slot[r].data
              /\ (slot[r].pc # "idle" /\ slot[r].route \notin GuardedByRole
                  /\ slot'[r] # slot[r])
                     => store' = store
       /\ Answers => store' = store]_vars

\* the INSERT of an administrator's POST /user has just added a row
C20_Witness ==
    /\ \E r \in Slots :
           /\ slot[r].pc = "settled"
           /\ slot[r].route = "POST /user"
           /\ slot[r].outcome = "resolved"
           /\ HasUser(slot[r].sid)
           /\ RoleOf(slot[r].sid) >= RightsAdmin
           /\ \E row \in store : row.username = SqlParam(slot[r].data.username)
                                 /\ row.id = nextId - 1
    /\ Cardinality(store) = 3

====
